---- MODULE Spec2Model ----
(***************************************************************************)
(* Model of the products API: the GET /products handler (query coercion,   *)
(* offset arithmetic, count query, windowed fetch ordered by price         *)
(* descending, result envelope) and the POST /products handler (save).     *)
(* The relational store is shared by the requests in flight; one list      *)
(* request and one create request can be in flight at the same time, and   *)
(* every awaited store call is a separate step.                            *)
(***************************************************************************)
EXTENDS Integers, Sequences, FiniteSets

VARIABLES
    store,   \* the Product table: a set of [id, name, price] rows
    nextId,  \* the id the table generates for the next inserted row
    get,     \* the findAll call in flight: its position and local values
    post,    \* the create call in flight: its position and local values
    raised   \* the error the store rejected the call in flight with, if any

vars == <<store, nextId, get, post, raised>>

(***************************************************************************)
(* Bounds and input alphabets.                                             *)
(***************************************************************************)
\* largest product id, hence largest collection size, the model explores
MaxProducts == 2

Names == {"Widget"}

Prices == {5, 9}

StoreErrors == {"ConnectionLost", "QueryFailed"}

\* a query-string parameter: absent from the URL, or present with a text
\* (the text is a sequence of characters)
Absent == [present |-> FALSE, text |-> <<>>]

Text(s) == [present |-> TRUE, text |-> s]

RawPages == {Text(<<"1">>), Text(<<"2">>), Text(<<"-", "1">>),
             Text(<<"a", "b", "c">>), Text(<<>>), Absent}

RawLimits == {Text(<<"1">>), Text(<<"2">>), Text(<<"1", "1">>),
              Text(<<"-", "1">>), Text(<<"a", "b", "c">>), Text(<<>>), Absent}

(***************************************************************************)
(* JavaScript numbers: an integer or NaN.                                  *)
(***************************************************************************)
Num(n) == [nan |-> FALSE, v |-> n]

NaN == [nan |-> TRUE, v |-> 0]

IsDigit(c) == c \in {"0", "1", "2", "3", "4", "5", "6", "7", "8", "9"}

DigitValue(c) ==
    CASE c = "0" -> 0 [] c = "1" -> 1 [] c = "2" -> 2 [] c = "3" -> 3
      [] c = "4" -> 4 [] c = "5" -> 5 [] c = "6" -> 6 [] c = "7" -> 7
      [] c = "8" -> 8 [] c = "9" -> 9

AllDigits(s) == Len(s) > 0 /\ \A i \in 1..Len(s) : IsDigit(s[i])

RECURSIVE DecimalValue(_, _)
DecimalValue(s, acc) ==
    IF s = <<>> THEN acc
    ELSE DecimalValue(Tail(s), acc * 10 + DigitValue(Head(s)))

RECURSIVE TrimLeft(_)
TrimLeft(s) ==
    IF s # <<>> /\ Head(s) = " " THEN TrimLeft(Tail(s)) ELSE s

RECURSIVE TrimRight(_)
TrimRight(s) ==
    IF s # <<>> /\ s[Len(s)] = " " THEN TrimRight(SubSeq(s, 1, Len(s) - 1)) ELSE s

\* Number(text): white space is trimmed, the empty text is 0, an optionally
\* signed run of decimal digits is its value, anything else is NaN
StringToNumber(s) ==
    LET t == TrimRight(TrimLeft(s)) IN
    IF t = <<>> THEN Num(0)
    ELSE IF Head(t) = "-"
         THEN IF AllDigits(Tail(t)) THEN Num(0 - DecimalValue(Tail(t), 0)) ELSE NaN
    ELSE IF Head(t) = "+"
         THEN IF AllDigits(Tail(t)) THEN Num(DecimalValue(Tail(t), 0)) ELSE NaN
    ELSE IF AllDigits(t) THEN Num(DecimalValue(t, 0)) ELSE NaN

\* variant: an absent parameter defaults to 1 instead of going through Number()
ToNumberDefaulting(q) == IF q.present THEN StringToNumber(q.text) ELSE Num(1)

\* Number(q) of a query parameter: Number(undefined) is NaN
ToNumber(q) == IF q.present THEN StringToNumber(q.text) ELSE NaN

NumSub(a, b) == IF a.nan \/ b.nan THEN NaN ELSE Num(a.v - b.v)

NumMul(a, b) == IF a.nan \/ b.nan THEN NaN ELSE Num(a.v * b.v)

(***************************************************************************)
(* The store: the Product table behind the repository.                     *)
(***************************************************************************)
Ids == 1..MaxProducts

Products == [id : Ids, name : Names, price : Prices]

\* a request body of POST /products: name and price, and possibly an id
Bodies == [hasId : {FALSE}, id : {0}, name : Names, price : Prices]
          \cup [hasId : {TRUE}, id : Ids, name : Names, price : Prices]

IdsOf(products) == {p.id : p \in products}

\* variant: the count is read off the largest id instead of counting the rows
RepositoryCountByMaxId(products) ==
    IF products = {} THEN 0 ELSE CHOOSE m \in IdsOf(products) : \A i \in IdsOf(products) : i <= m

\* repository.count(): SELECT COUNT(*) over the whole table
RepositoryCount(products) == Cardinality(products)

\* ORDER BY price DESC: every arrangement of the rows with non-increasing
\* price (the store does not fix the order of rows of equal price)
RECURSIVE PriceDescOrders(_)
PriceDescOrders(products) ==
    IF products = {} THEN {<<>>}
    ELSE UNION {{<<p>> \o o : o \in PriceDescOrders(products \ {p})} :
                p \in {x \in products : \A y \in products : x.price >= y.price}}

RECURSIVE Drop(_, _)
Drop(s, n) == IF n = 0 \/ s = <<>> THEN s ELSE Drop(Tail(s), n - 1)

RECURSIVE Take(_, _)
Take(s, n) == IF n = 0 \/ s = <<>> THEN <<>> ELSE <<Head(s)>> \o Take(Tail(s), n - 1)

\* the query builder emits a LIMIT or OFFSET clause only for a truthy value:
\* 0 and NaN leave the clause out
Truthy(x) == ~x.nan /\ x.v # 0

\* createQueryBuilder().orderBy('price','DESC').offset(o).limit(l).getMany():
\* the row lists the store can answer with. A negative offset or limit is
\* rejected by the store, so it has no answer with rows.
GetMany(products, offset, limit) ==
    IF (~offset.nan /\ offset.v < 0) \/ (~limit.nan /\ limit.v < 0) THEN {}
    ELSE {LET skipped == IF Truthy(offset) THEN Drop(o, offset.v) ELSE o
          IN  IF Truthy(limit) THEN Take(skipped, limit.v) ELSE skipped
          : o \in PriceDescOrders(products)}

\* variant: the id generator is not moved past an id the body supplied
RepositorySaveStaleCounter(products, autoInc, body) ==
    LET id     == IF body.hasId THEN body.id ELSE autoInc
        entity == [id |-> id, name |-> body.name, price |-> body.price]
    IN  [products |-> {p \in products : p.id # id} \cup {entity},
         autoInc  |-> IF body.hasId THEN autoInc ELSE autoInc + 1,
         entity   |-> entity]

\* repository.save(body): an insert with a generated id when the body has
\* no id; with an id, an update of the row of that id when it exists and an
\* insert under that id otherwise. AUTO_INCREMENT stays above every id used.
RepositorySave(products, autoInc, body) ==
    LET id     == IF body.hasId THEN body.id ELSE autoInc
        entity == [id |-> id, name |-> body.name, price |-> body.price]
    IN  [products |-> {p \in products : p.id # id} \cup {entity},
         autoInc  |-> IF id >= autoInc THEN id + 1 ELSE autoInc,
         entity   |-> entity]

(***************************************************************************)
(* ProductsService.findAll and ProductsController.findAll.                 *)
(***************************************************************************)
IdleGet ==
    [pc |-> "idle", query |-> [page |-> Absent, limit |-> Absent],
     page |-> NaN, limit |-> NaN, skippedItems |-> NaN,
     totalCount |-> <<>>, nCount |-> 0, nFetch |-> 0,
     result |-> <<>>, error |-> <<>>]

\* variant: the offset of a 0-based page number
SkippedItemsZeroBased(page, limit) == NumMul(page, limit)

\* const skippedItems = (paginationDto.page - 1) * paginationDto.limit
SkippedItems(page, limit) == NumMul(NumSub(page, Num(1)), limit)

\* findAll up to its first await: the offset is computed and the count
\* query is issued
ServiceFindAll(query, dto) ==
    [pc |-> "count", query |-> query,
     page |-> dto.page, limit |-> dto.limit,
     skippedItems |-> SkippedItems(dto.page, dto.limit),
     totalCount |-> <<>>, nCount |-> 1, nFetch |-> 0,
     result |-> <<>>, error |-> <<>>]

\* the limit the controller hands to the service: { ...dto, limit: dto.limit }
ControllerLimit(limit) == limit

\* the page the controller hands to the service
ControllerPage(page) == page

\* the GET handler: Number() of both parameters, then the service call
ControllerFindAll(rawPage, rawLimit) ==
    LET page  == ToNumber(rawPage)
        limit == ToNumber(rawLimit)
    IN  ServiceFindAll([page |-> rawPage, limit |-> rawLimit],
                       [page |-> ControllerPage(page), limit |-> ControllerLimit(limit)])

\* the count resolved: totalCount is bound and the windowed fetch is issued
FindAllAfterCount(g, count) ==
    [g EXCEPT !.pc = "fetch", !.totalCount = <<count>>, !.nFetch = g.nFetch + 1]

\* variant: a failed store call is swallowed and an empty page is returned
FindAllRejectedFallback(g, e) ==
    [g EXCEPT !.pc = "done",
              !.result = <<[totalCount |-> 0, page |-> g.page,
                            limit |-> g.limit, data |-> <<>>]>>]

\* an awaited store call rejected: findAll rejects with the same error
FindAllRejected(g, e) == [g EXCEPT !.pc = "failed", !.error = <<e>>]

\* variant: totalCount is taken from the page that was fetched
FindAllReturnPageCount(g, products) ==
    [g EXCEPT !.pc = "done",
              !.result = <<[totalCount |-> Len(products), page |-> g.page,
                            limit |-> g.limit, data |-> products]>>]

\* variant: the echoed limit is adjusted to the number of rows fetched
FindAllReturnClampedLimit(g, products) ==
    [g EXCEPT !.pc = "done",
              !.result = <<[totalCount |-> g.totalCount[1], page |-> g.page,
                            limit |-> Num(Len(products)), data |-> products]>>]

\* the fetch resolved: the envelope is returned
FindAllReturn(g, products) ==
    [g EXCEPT !.pc = "done",
              !.result = <<[totalCount |-> g.totalCount[1], page |-> g.page,
                            limit |-> g.limit, data |-> products]>>]

(***************************************************************************)
(* ProductsService.create and ProductsController.create.                   *)
(***************************************************************************)
IdlePost ==
    [pc |-> "idle", body |-> [hasId |-> FALSE, id |-> 0, name |-> "Widget", price |-> 5],
     nSave |-> 0, result |-> <<>>, error |-> <<>>]

\* create(productDto): the body goes to repository.save as it came
ControllerCreate(body) ==
    [pc |-> "save", body |-> body, nSave |-> 1, result |-> <<>>, error |-> <<>>]

\* save resolved: create resolves with the persisted entity
CreateReturn(c, entity) == [c EXCEPT !.pc = "done", !.result = <<entity>>]

\* save rejected: create rejects with the same error
CreateRejected(c, e) == [c EXCEPT !.pc = "failed", !.error = <<e>>]

(***************************************************************************)
(* State machine.                                                          *)
(***************************************************************************)
NoneRaised == [get |-> <<>>, post |-> <<>>]

Init ==
    /\ store = {}
    /\ nextId = 1
    /\ get = IdleGet
    /\ post = IdlePost
    /\ raised = NoneRaised

\* GET /products?page=..&limit=.. arrives
GetRequest ==
    /\ get.pc = "idle"
    /\ \E rawPage \in RawPages, rawLimit \in RawLimits :
           get' = ControllerFindAll(rawPage, rawLimit)
    /\ UNCHANGED <<store, nextId, post, raised>>

\* the store answers the count query
CountResolve ==
    /\ get.pc = "count"
    /\ get' = FindAllAfterCount(get, RepositoryCount(store))
    /\ UNCHANGED <<store, nextId, post, raised>>

\* the store fails the count query
CountReject ==
    /\ get.pc = "count"
    /\ \E e \in StoreErrors :
           /\ raised' = [raised EXCEPT !.get = <<e>>]
           /\ get' = FindAllRejected(get, e)
    /\ UNCHANGED <<store, nextId, post>>

\* the store answers the windowed fetch
FetchResolve ==
    /\ get.pc = "fetch"
    /\ \E rows \in GetMany(store, get.skippedItems, get.limit) :
           get' = FindAllReturn(get, rows)
    /\ UNCHANGED <<store, nextId, post, raised>>

\* the store fails the windowed fetch
FetchReject ==
    /\ get.pc = "fetch"
    /\ \E e \in StoreErrors :
           /\ raised' = [raised EXCEPT !.get = <<e>>]
           /\ get' = FindAllRejected(get, e)
    /\ UNCHANGED <<store, nextId, post>>

\* the response (or the failure) of the list request is delivered
GetRespond ==
    /\ get.pc \in {"done", "failed"}
    /\ get' = IdleGet
    /\ raised' = [raised EXCEPT !.get = <<>>]
    /\ UNCHANGED <<store, nextId, post>>

\* POST /products arrives
PostRequest ==
    /\ post.pc = "idle"
    /\ \E body \in Bodies :
           /\ body.hasId \/ nextId <= MaxProducts
           /\ post' = ControllerCreate(body)
    /\ UNCHANGED <<store, nextId, get, raised>>

\* the store commits the save
SaveResolve ==
    /\ post.pc = "save"
    /\ LET saved == RepositorySave(store, nextId, post.body) IN
           /\ store' = saved.products
           /\ nextId' = saved.autoInc
           /\ post' = CreateReturn(post, saved.entity)
    /\ UNCHANGED <<get, raised>>

\* the store fails the save
SaveReject ==
    /\ post.pc = "save"
    /\ \E e \in StoreErrors :
           /\ raised' = [raised EXCEPT !.post = <<e>>]
           /\ post' = CreateRejected(post, e)
    /\ UNCHANGED <<store, nextId, get>>

\* the response (or the failure) of the create request is delivered
PostRespond ==
    /\ post.pc \in {"done", "failed"}
    /\ post' = IdlePost
    /\ raised' = [raised EXCEPT !.post = <<>>]
    /\ UNCHANGED <<store, nextId, get>>

Next ==
    \/ GetRequest
    \/ CountResolve
    \/ CountReject
    \/ FetchResolve
    \/ FetchReject
    \/ GetRespond
    \/ PostRequest
    \/ SaveResolve
    \/ SaveReject
    \/ PostRespond

Spec == Init /\ [][Next]_vars

(***************************************************************************)
(* Properties.                                                             *)
(***************************************************************************)
Min(a, b) == IF a <= b THEN a ELSE b

Max(a, b) == IF a >= b THEN a ELSE b

\* the step in which the windowed fetch resolves and findAll returns
FetchReturns == get.pc = "fetch" /\ get'.pc = "done"

\* the step in which the count query resolves
CountReturns == get.pc = "count" /\ get'.pc = "fetch"

\* the step in which the save commits and create returns
SaveReturns == post.pc = "save" /\ post'.pc = "done"

\* o lists every product of the set once, by non-increasing price
IsPriceDescOrderOf(o, products) ==
    /\ \A p \in products : \E i \in DOMAIN o : o[i] = p
    /\ \A i, j \in DOMAIN o : i < j => o[i] # o[j] /\ o[i].price >= o[j].price

C2_TotalCountIsCollectionSize ==
    [][/\ CountReturns => get'.totalCount = <<Cardinality(store)>>
       /\ FetchReturns => get'.result[1].totalCount = get.totalCount[1]]_vars

\* C2 witness: a window past the end of a two-product collection
C2_Witness ==
    /\ get.pc = "done"
    /\ get.result[1].data = <<>>
    /\ get.result[1].totalCount = 2
    /\ Cardinality(store) = 2

\* C3: a successful create(name, price) returns the given name and price
\* under an id no stored product has, and the collection (hence the count a
\* later list request reads) grows by exactly one.
C3_CreateAddsOne ==
    [][(SaveReturns /\ ~post.body.hasId) =>
        LET r == post'.result[1]
        IN  /\ r.name = post.body.name
            /\ r.price = post.body.price
            /\ r.id \notin IdsOf(store)
            /\ store' = store \cup {r}
            /\ RepositoryCount(store') = RepositoryCount(store) + 1]_vars

\* C3 witness: a create without id has returned and the store holds two products
C3_Witness ==
    /\ post.pc = "done"
    /\ ~post.body.hasId
    /\ post.result[1] \in store
    /\ Cardinality(store) = 2

\* C4: page and limit of the result are the Number() of the request's
\* query parameters, not adjusted to the data or the collection.
C4_EchoesNormalizedRequest ==
    get.pc = "done" =>
        /\ get.result[1].page = ToNumber(get.query.page)
        /\ get.result[1].limit = ToNumber(get.query.limit)

\* C4 witness: limit 11 echoed although fewer rows exist
C4_Witness ==
    /\ get.pc = "done"
    /\ get.result[1].limit = Num(11)
    /\ Len(get.result[1].data) < 11
    /\ get.result[1].page = Num(2)

\* C5: the service is never called with a limit above 10.
C5_LimitAtMostTen ==
    get.pc # "idle" => (get.limit.nan \/ get.limit.v <= 10)

\* C6: a failed store call makes findAll (create) fail with that failure and
\* no result; each findAll issues at most one count and one fetch, the fetch
\* only after the count succeeded; create issues at most one save.
C6_FailurePropagatesNoRetry ==
    /\ get.nCount <= 1 /\ get.nFetch <= 1
    /\ get.nFetch = 1 => get.totalCount # <<>>
    /\ raised.get # <<>> <=> get.pc = "failed"
    /\ get.pc = "failed" => get.error = raised.get /\ get.result = <<>>
    /\ get.pc = "done" => get.error = <<>>
    /\ post.nSave <= 1
    /\ raised.post # <<>> <=> post.pc = "failed"
    /\ post.pc = "failed" => post.error = raised.post /\ post.result = <<>>

\* C6 witness: the fetch failed after the count had succeeded
C6_Witness ==
    /\ get.pc = "failed"
    /\ get.nFetch = 1
    /\ get.error = <<"QueryFailed">>
    /\ post.pc = "failed"

\* C7: a stored product is never changed or removed.
C7_StoredProductsKept ==
    [][\A p \in store : p \in store']_vars

\* C8: the service is never called with a negative page or limit.
C8_NoNegativePageOrLimit ==
    get.pc # "idle" =>
        /\ get.page.nan \/ get.page.v >= 0
        /\ get.limit.nan \/ get.limit.v >= 0

\* an optionally signed run of decimal digits
IsNumeral(t) ==
    \/ AllDigits(t)
    \/ t # <<>> /\ Head(t) \in {"-", "+"} /\ AllDigits(Tail(t))

\* a parameter that is missing or whose text is not a number
NonNumeric(q) == ~q.present \/ ~IsNumeral(q.text)

\* a parameter that is present with an empty or blank text
Blank(q) == q.present /\ TrimLeft(q.text) = <<>>

\* C9 as stated: every non-numeric or missing page or limit reaches the
\* service as NaN, makes skip NaN, and nothing is rejected before the store
\* is queried.
C9_NonNumericBecomesNaN ==
    get.pc # "idle" =>
        /\ get.nCount = 1
        /\ NonNumeric(get.query.page) => get.page = NaN /\ get.skippedItems = NaN
        /\ NonNumeric(get.query.limit) => get.limit = NaN /\ get.skippedItems = NaN

\* C9 amended: a missing parameter, or one whose text is neither blank nor
\* a number, reaches the service as NaN and makes skip NaN; a blank text
\* reaches it as 0; in every case the count query is issued unvalidated.
C9_MalformedBecomesNaNBlankZero ==
    get.pc # "idle" =>
        /\ get.nCount = 1
        /\ (NonNumeric(get.query.page) /\ ~Blank(get.query.page))
               => get.page = NaN /\ get.skippedItems = NaN
        /\ (NonNumeric(get.query.limit) /\ ~Blank(get.query.limit))
               => get.limit = NaN /\ get.skippedItems = NaN
        /\ Blank(get.query.page) => get.page = Num(0)
        /\ Blank(get.query.limit) => get.limit = Num(0)

\* C9 witness: the fetch is issued with NaN for a missing page and a
\* non-numeric limit
C9_Witness ==
    /\ get.pc = "fetch"
    /\ get.query.page = Absent
    /\ get.query.limit = Text(<<"a", "b", "c">>)
    /\ get.limit = NaN /\ get.skippedItems = NaN

\* C10 as stated: data never holds more items than totalCount (stated here
\* for requests with page >= 1 and limit >= 1 only).
C10_DataWithinTotalCount ==
    (get.pc = "done" /\ ~get.page.nan /\ get.page.v >= 1
                     /\ ~get.limit.nan /\ get.limit.v >= 1)
        => Len(get.result[1].data) <= get.result[1].totalCount

\* C10 amended: when the fetch runs, totalCount is at most the number of
\* products in the store and data holds distinct products of the store; so
\* data is within totalCount whenever no product was added since the count.
C10_DataWithinStoreAtFetch ==
    [][FetchReturns =>
        LET data == get'.result[1].data
        IN  /\ get.totalCount[1] <= Cardinality(store)
            /\ \A i \in 1..Len(data) : data[i] \in store
            /\ \A i, j \in 1..Len(data) : i # j => data[i] # data[j]
            /\ Cardinality(store) = get.totalCount[1]
                   => Len(data) <= get'.result[1].totalCount]_vars

\* C10 witness: a create committed between the count and the fetch
C10_Witness ==
    /\ get.pc = "done"
    /\ get.page = Num(1) /\ get.limit = Num(2)
    /\ Len(get.result[1].data) > get.result[1].totalCount

====
